---- MODULE Spec2Model ----
(***************************************************************************)
(* A model of say_anything.py: the Game class (one "Say Anything" session  *)
(* per Discord text channel).  Every method of Game is an operator from    *)
(* the object's fields before the call to its fields after the call; an    *)
(* action delivers one event to one Game and stores the result.            *)
(***************************************************************************)
EXTENDS Integers, Sequences, FiniteSets, TLC

\* Python's None, where a user is optional.
None == "None"

\* An Optional holding a str or a list: None is Nil, the value v is Some(v).
Nil == <<>>
Some(v) == <<v>>

\* The discord users that can take part (Player values).
Users == {"A", "B", "C"}

\* The Game objects that exist (one per channel); Driven are the ones that
\* receive events under Spec.
Sessions == {1, 2}
Driven == {1}

----------------------------------------------------------------------------
\* Bounds of the model.

\* Most users mentioned in one !addplayers message.
MaxMentions == 2
\* Largest vote credit a voter accumulates (the code has no clamp).
MaxWeight == 3

----------------------------------------------------------------------------
\* Text.  A str is a sequence of one-character strings.

Whitespace == {" "}
Digits == <<"0", "1", "2", "3">>
\* Characters for which str.isnumeric() holds but int() raises ValueError
\* ("#" stands for one such character, e.g. U+00BD).
OtherNumeric == {"#"}

\* Message bodies the model delivers.
AnswerTexts == {<<" ", "x">>, <<"y", " ">>}
QuestionTexts == {<<" ">>, <<"q", " ">>}
NumberTexts == {<<"0">>, <<"1">>, <<"2">>, <<"3">>, <<"#">>}
\* The direct messages the model delivers: the setter sends numbers and
\* texts, every other player texts.
DirectTexts(from_setter) ==
    IF from_setter THEN NumberTexts \cup AnswerTexts ELSE AnswerTexts

RECURSIVE lstrip(_)
lstrip(t) ==
    IF t # <<>> /\ Head(t) \in Whitespace THEN lstrip(Tail(t)) ELSE t

RECURSIVE rstrip(_)
rstrip(t) ==
    IF t # <<>> /\ t[Len(t)] \in Whitespace
    THEN rstrip(SubSeq(t, 1, Len(t) - 1))
    ELSE t

\* str.strip()
strip(t) == rstrip(lstrip(t))

\* str.isnumeric(): non-empty and every character numeric.
isnumeric(t) ==
    /\ t # <<>>
    /\ \A i \in 1..Len(t) :
          t[i] \in {Digits[k] : k \in 1..Len(Digits)} \cup OtherNumeric

DigitValue(c) == (CHOOSE k \in 1..Len(Digits) : Digits[k] = c) - 1

RECURSIVE int(_)
\* int(str) of a string of decimal digits.
int(t) ==
    IF t = <<>> THEN 0
    ELSE 10 * int(SubSeq(t, 1, Len(t) - 1)) + DigitValue(t[Len(t)])

\* int() raises ValueError on a numeric character that is no decimal digit.
IntRaises(t) == \E i \in 1..Len(t) : t[i] \in OtherNumeric

\* Truthiness of an Optional str or list: None and the empty one are falsy.
Truthy(o) == o # Nil /\ o[1] # <<>>

----------------------------------------------------------------------------
\* Dicts and lists.

EmptyDict == [k \in {} |-> None]

\* d[k] = v
Put(d, k, v) == [x \in DOMAIN d \cup {k} |-> IF x = k THEN v ELSE d[x]]

\* x in list
InList(x, l) == \E i \in 1..Len(l) : l[i] = x

\* The orderings of a set of users: the randomness random.shuffle draws on.
Orderings(S) ==
    { f \in [1..Cardinality(S) -> S] :
         \A i, j \in 1..Cardinality(S) : f[i] = f[j] => i = j }

\* list(d.items()) after random.shuffle: the (key, value) pairs of d in the
\* order rnd puts their keys in.  Every permutation of the items is the
\* result for some rnd.
shuffled(d, rnd) ==
    LET keys == SelectSeq(rnd, LAMBDA u : u \in DOMAIN d)
    IN [i \in 1..Len(keys) |-> <<keys[i], d[keys[i]]>>]

----------------------------------------------------------------------------
\* The Game object.  A value of this record holds what attribute lookup on
\* one Game gives: the instance's own attributes and, for the three dicts
\* declared in the class body, the class's dict while the instance has not
\* yet bound its own (bound = FALSE).  exc is the exception the running
\* handler has raised (None: none) and out the messages it has sent.

\* What the model keeps for a dict attribute the instance has not bound
\* (bound = FALSE): lookup goes to the class, see Self.
ClassAttr == [k \in {} |-> None]

\* Game.__init__ on top of the class-level defaults.  The defaults that are
\* not dicts are immutable values, so sharing them cannot be observed.
NewGame ==
    [ players               |-> <<>>,
      scores                |-> EmptyDict,
      setter_index          |-> -1,
      question_setter       |-> None,
      question              |-> Nil,
      answers               |-> ClassAttr,
      answer_selection_list |-> Nil,
      correct_answer        |-> None,
      vote_messages         |-> ClassAttr,
      votes                 |-> ClassAttr,
      bound                 |-> FALSE ]

\* The class-level dict() objects: one object each, shared by every Game
\* that has not bound its own.
ClassDicts ==
    [ answers |-> EmptyDict, vote_messages |-> EmptyDict, votes |-> EmptyDict ]

\* Game.start_round with the reset of the round state left out.
start_round_keeps_state(s) ==
    IF s.question_setter # None THEN s
    ELSE LET i1 == s.setter_index + 1
             i2 == IF i1 >= Len(s.players) THEN 0 ELSE i1
         IN IF i2 >= Len(s.players)
            THEN [s EXCEPT !.setter_index = i2, !.exc = "IndexError"]
            ELSE [s EXCEPT !.setter_index = i2,
                           !.question_setter = s.players[i2 + 1],
                           !.bound = TRUE,
                           !.out = Append(@, "set_your_question")]

\* Game.start_round without its guard on an active setter.
start_round_unguarded(s) ==
    LET i1 == s.setter_index + 1
        i2 == IF i1 >= Len(s.players) THEN 0 ELSE i1
    IN IF i2 >= Len(s.players)
       THEN [s EXCEPT !.setter_index = i2, !.exc = "IndexError"]
       ELSE [s EXCEPT !.setter_index = i2,
                      !.question_setter = s.players[i2 + 1],
                      !.question = Nil,
                      !.answers = EmptyDict,
                      !.correct_answer = None,
                      !.answer_selection_list = Nil,
                      !.vote_messages = EmptyDict,
                      !.votes = EmptyDict,
                      !.bound = TRUE,
                      !.out = Append(@, "set_your_question")]

\* Game.start_round emptying the three dicts in place (dict.clear()) where
\* the code binds new ones: a Game that has bound none keeps using the
\* class's.
start_round_clears_in_place(s) ==
    IF s.question_setter # None THEN s
    ELSE LET i1 == s.setter_index + 1
             i2 == IF i1 >= Len(s.players) THEN 0 ELSE i1
         IN IF i2 >= Len(s.players)
            THEN [s EXCEPT !.setter_index = i2, !.exc = "IndexError"]
            ELSE [s EXCEPT !.setter_index = i2,
                           !.question_setter = s.players[i2 + 1],
                           !.question = Nil,
                           !.answers = EmptyDict,
                           !.correct_answer = None,
                           !.answer_selection_list = Nil,
                           !.vote_messages = EmptyDict,
                           !.votes = EmptyDict,
                           !.out = Append(@, "set_your_question")]

\* Game.start_round.  self.players[self.setter_index] raises IndexError on
\* an empty roster, after setter_index has been assigned.
start_round(s) ==
    IF s.question_setter # None THEN s
    ELSE LET i1 == s.setter_index + 1
             i2 == IF i1 >= Len(s.players) THEN 0 ELSE i1
         IN IF i2 >= Len(s.players)
            THEN [s EXCEPT !.setter_index = i2, !.exc = "IndexError"]
            ELSE [s EXCEPT !.setter_index = i2,
                           !.question_setter = s.players[i2 + 1],
                           !.question = Nil,
                           !.answers = EmptyDict,
                           !.correct_answer = None,
                           !.answer_selection_list = Nil,
                           !.vote_messages = EmptyDict,
                           !.votes = EmptyDict,
                           !.bound = TRUE,
                           !.out = Append(@, "set_your_question")]

RECURSIVE add_each_no_check(_, _)
\* The loop of add_players without its "already present" test.
add_each_no_check(s, ps) ==
    IF ps = <<>> THEN s
    ELSE add_each_no_check([s EXCEPT !.players = Append(@, Head(ps)),
                                     !.scores = Put(@, Head(ps), 0)],
                           Tail(ps))

RECURSIVE add_each(_, _)
\* The loop of add_players over the mentioned users.
add_each(s, ps) ==
    IF ps = <<>> THEN s
    ELSE IF InList(Head(ps), s.players) THEN add_each(s, Tail(ps))
    ELSE add_each([s EXCEPT !.players = Append(@, Head(ps)),
                            !.scores = Put(@, Head(ps), 0)],
                  Tail(ps))

\* Game.add_players
add_players(s, ps) ==
    LET s1 == add_each(s, ps)
        s2 == [s1 EXCEPT !.out = Append(@, "added")]
    IN IF s2.question_setter = None /\ Len(s2.players) >= 2
       THEN start_round(s2)
       ELSE s2

\* Game.request_answers: one private message to every player but the setter.
request_answers(s) ==
    IF s.question_setter = None THEN s
    ELSE [s EXCEPT !.out = @ \o
            [i \in 1..Cardinality({j \in 1..Len(s.players) :
                                      s.players[j] # s.question_setter})
               |-> "what_answer"]]

\* Game.request_answer_selection; rnd is the randomness of its shuffle.
request_answer_selection(s, rnd) ==
    IF s.question_setter = None THEN s
    ELSE [s EXCEPT !.answer_selection_list = Some(shuffled(s.answers, rnd)),
                   !.out = Append(@, "select_the_answer")]

\* The list select_answer indexes: self.answer_selection_list or [].
selection_list(s) ==
    IF Truthy(s.answer_selection_list) THEN s.answer_selection_list[1]
    ELSE <<>>

\* Game.select_answer opening the vote for every player of the roster.
select_answer_tracks_roster(s, index, rnd, sent) ==
    IF index < 1 THEN s
    ELSE IF index > Len(selection_list(s)) THEN s
    ELSE LET order == shuffled(s.answers, rnd)
             n == Len(order)
             msgs == {sent[i] : i \in 1..n}
         IN [s EXCEPT
               !.correct_answer = selection_list(s)[index][1],
               !.answer_selection_list = Nil,
               !.votes = [u \in {s.players[i] : i \in 1..Len(s.players)} |-> 0],
               !.vote_messages = [m \in DOMAIN s.vote_messages \cup msgs |->
                            IF m \in msgs
                            THEN order[CHOOSE i \in 1..n : sent[i] = m][1]
                            ELSE s.vote_messages[m]],
               !.out = @ \o [i \in 1..n |-> "vote_prompt"]]

\* Game.select_answer with "index < 0" for its first test: index 0 then
\* reads selection_list[-1], the last entry.
select_answer_from_zero(s, index, rnd, sent) ==
    IF index < 0 THEN s
    ELSE IF index > Len(selection_list(s)) THEN s
    ELSE LET order == shuffled(s.answers, rnd)
             n == Len(order)
             users == {order[i][1] : i \in 1..n}
             msgs == {sent[i] : i \in 1..n}
             k == IF index = 0 THEN Len(selection_list(s)) ELSE index
         IN [s EXCEPT
               !.correct_answer = selection_list(s)[k][1],
               !.answer_selection_list = Nil,
               !.votes = [u \in DOMAIN s.votes \cup users |->
                            IF u \in users THEN 0 ELSE s.votes[u]],
               !.vote_messages = [m \in DOMAIN s.vote_messages \cup msgs |->
                            IF m \in msgs
                            THEN order[CHOOSE i \in 1..n : sent[i] = m][1]
                            ELSE s.vote_messages[m]],
               !.out = @ \o [i \in 1..n |-> "vote_prompt"]]

\* Game.select_answer displaying the answers in the order of the selection
\* list, without a shuffle of its own.
select_answer_same_order(s, index, rnd, sent) ==
    IF index < 1 THEN s
    ELSE IF index > Len(selection_list(s)) THEN s
    ELSE LET order == selection_list(s)
             n == Len(order)
             users == {order[i][1] : i \in 1..n}
             msgs == {sent[i] : i \in 1..n}
         IN [s EXCEPT
               !.correct_answer = selection_list(s)[index][1],
               !.answer_selection_list = Nil,
               !.votes = [u \in DOMAIN s.votes \cup users |->
                            IF u \in users THEN 0 ELSE s.votes[u]],
               !.vote_messages = [m \in DOMAIN s.vote_messages \cup msgs |->
                            IF m \in msgs
                            THEN order[CHOOSE i \in 1..n : sent[i] = m][1]
                            ELSE s.vote_messages[m]],
               !.out = @ \o [i \in 1..n |-> "vote_prompt"]]

\* Game.select_answer.  rnd is the randomness of its shuffle; sent[i] is the
\* id of the message channel.send returns for the i-th answer displayed.
select_answer(s, index, rnd, sent) ==
    IF index < 1 THEN s
    ELSE IF index > Len(selection_list(s)) THEN s
    ELSE LET order == shuffled(s.answers, rnd)
             n == Len(order)
             users == {order[i][1] : i \in 1..n}
             msgs == {sent[i] : i \in 1..n}
         IN [s EXCEPT
               !.correct_answer = selection_list(s)[index][1],
               !.answer_selection_list = Nil,
               !.votes = [u \in DOMAIN s.votes \cup users |->
                            IF u \in users THEN 0 ELSE s.votes[u]],
               !.vote_messages = [m \in DOMAIN s.vote_messages \cup msgs |->
                            IF m \in msgs
                            THEN order[CHOOSE i \in 1..n : sent[i] = m][1]
                            ELSE s.vote_messages[m]],
               !.out = @ \o [i \in 1..n |-> "vote_prompt"]]

\* The emoji a vote is cast with.
VoteEmoji == {"1", "2"}

\* Game.handle_reaction ending the round once the voter who reacted has
\* spent 2, whatever the others have spent.
handle_reaction_one_voter(s, event) ==
    IF s.correct_answer = None THEN s
    ELSE IF event.emoji \notin VoteEmoji THEN s
    ELSE IF event.member = None \/ event.member \notin DOMAIN s.votes THEN s
    ELSE IF event.message_id \notin DOMAIN s.vote_messages
         THEN [s EXCEPT !.exc = "StopIteration"]
    ELSE LET player == event.member
             s1 == [s EXCEPT !.votes[player] =
                       IF event.emoji = "2" THEN @ + 2 ELSE @ + 1]
         IN IF s1.votes[player] < 2 THEN s1
            ELSE [s1 EXCEPT !.question_setter = None,
                            !.out = @ \o <<"correct_answer_was",
                                           "scoring_not_implemented">>]

\* Game.handle_reaction.  event = [member, emoji, message_id]; member is
\* None when discord gives no member.  next() over no matching vote message
\* raises StopIteration (a RuntimeError once it leaves the coroutine).
handle_reaction(s, event) ==
    IF s.correct_answer = None THEN s
    ELSE IF event.emoji \notin VoteEmoji THEN s
    ELSE IF event.member = None \/ event.member \notin DOMAIN s.votes THEN s
    ELSE IF event.message_id \notin DOMAIN s.vote_messages
         THEN [s EXCEPT !.exc = "StopIteration"]
    ELSE LET player == event.member
             s1 == [s EXCEPT !.votes[player] =
                       IF event.emoji = "2" THEN @ + 2 ELSE @ + 1]
         IN IF \E voter \in DOMAIN s1.votes : s1.votes[voter] < 2 THEN s1
            ELSE IF s1.correct_answer \notin DOMAIN s1.answers
                 THEN [s1 EXCEPT !.exc = "KeyError"]
            ELSE [s1 EXCEPT !.question_setter = None,
                            !.out = @ \o <<"correct_answer_was",
                                           "scoring_not_implemented">>]

\* Game.handle_channel_message taking the question from any author.
handle_channel_message_any_author(s, message) ==
    IF message.command = "!nextround" THEN start_round(s)
    ELSE IF message.command = "!addplayers "
         THEN add_players(s, message.mentions)
    ELSE IF message.command = "!question "
         THEN IF Truthy(s.question) THEN s
              ELSE request_answers([s EXCEPT !.question =
                                             Some(strip(message.rest))])
    ELSE s

\* Game.handle_channel_message.  message = [author, command, rest, mentions]:
\* content is command followed by rest, command being the prefix the
\* startswith tests look for ("" when there is none of the three).
handle_channel_message(s, message) ==
    IF message.command = "!nextround" THEN start_round(s)
    ELSE IF message.command = "!addplayers "
         THEN add_players(s, message.mentions)
    ELSE IF message.command = "!question "
         THEN IF Truthy(s.question) THEN s
              ELSE IF message.author # s.question_setter THEN s
              ELSE request_answers([s EXCEPT !.question =
                                             Some(strip(message.rest))])
    ELSE s

\* handle_player_message keeping the first answer of a participant.
accept_answer_first_wins(s, message) ==
    [s EXCEPT !.answers = IF message.author \in DOMAIN @ THEN @
                          ELSE Put(@, message.author, strip(message.content)),
              !.out = Append(@, "thumbs_up")]

\* The assignment that accepts an answer, and the thumbs-up reaction.
accept_answer(s, message) ==
    [s EXCEPT !.answers = Put(@, message.author, strip(message.content)),
              !.out = Append(@, "thumbs_up")]

\* The test that every other player has answered, with >= 1 for the count.
all_answered_any(s) == Cardinality(DOMAIN s.answers) >= 1

\* len(self.answers) == len(self.players) - 1
all_answered(s) == Cardinality(DOMAIN s.answers) = Len(s.players) - 1

\* Game.handle_player_message refusing answers only while the selection
\* list is open, not once an answer has been selected.
handle_player_message_while_open(s, message, env) ==
    IF ~Truthy(s.question) THEN s
    ELSE IF message.author = s.question_setter
         THEN IF ~Truthy(s.answer_selection_list) THEN s
              ELSE IF ~isnumeric(message.content) THEN s
              ELSE IF IntRaises(message.content)
                   THEN [s EXCEPT !.exc = "ValueError"]
              ELSE select_answer(s, int(message.content), env.rnd,
                                 env.sent)
    ELSE IF Truthy(s.answer_selection_list)
         THEN s
    ELSE LET s1 == accept_answer(s, message)
         IN IF all_answered(s1)
            THEN request_answer_selection(s1, env.rnd)
            ELSE s1

\* Game.handle_player_message taking what the setter writes while no
\* selection list is open as an answer.
handle_player_message_setter_answers(s, message, env) ==
    IF ~Truthy(s.question) THEN s
    ELSE IF message.author = s.question_setter
            /\ Truthy(s.answer_selection_list)
         THEN IF ~isnumeric(message.content) THEN s
              ELSE IF IntRaises(message.content)
                   THEN [s EXCEPT !.exc = "ValueError"]
              ELSE select_answer(s, int(message.content), env.rnd,
                                 env.sent)
    ELSE IF Truthy(s.answer_selection_list) \/ s.correct_answer # None
         THEN s
    ELSE LET s1 == accept_answer(s, message)
         IN IF all_answered(s1)
            THEN request_answer_selection(s1, env.rnd)
            ELSE s1

\* Game.handle_player_message.  message = [author, content]; env gives the
\* randomness of the shuffle the handler runs (rnd: it runs at most one) and
\* the ids of the messages the channel would post next (sent).
handle_player_message(s, message, env) ==
    IF ~Truthy(s.question) THEN s
    ELSE IF message.author = s.question_setter
         THEN IF ~Truthy(s.answer_selection_list) THEN s
              ELSE IF ~isnumeric(message.content) THEN s
              ELSE IF IntRaises(message.content)
                   THEN [s EXCEPT !.exc = "ValueError"]
              ELSE select_answer(s, int(message.content), env.rnd,
                                 env.sent)
    ELSE IF Truthy(s.answer_selection_list) \/ s.correct_answer # None
         THEN s
    ELSE LET s1 == accept_answer(s, message)
         IN IF all_answered(s1)
            THEN request_answer_selection(s1, env.rnd)
            ELSE s1

----------------------------------------------------------------------------
\* The state.

VARIABLES
    games,      \* Session -> the attributes of its Game instance
    Game_cls,   \* the dict objects of the Game class body
    hist,       \* Session -> history of the game (what the claims speak of)
    last        \* the event handled last and what its handler did

vars == <<games, Game_cls, hist, last>>

\* Attribute lookup on Game g at the start of a handler.
Self(g) ==
    LET o == games[g]
    IN [ players               |-> o.players,
         scores                |-> o.scores,
         setter_index          |-> o.setter_index,
         question_setter       |-> o.question_setter,
         question              |-> o.question,
         answers               |-> IF o.bound THEN o.answers
                                   ELSE Game_cls.answers,
         answer_selection_list |-> o.answer_selection_list,
         correct_answer        |-> o.correct_answer,
         vote_messages         |-> IF o.bound THEN o.vote_messages
                                   ELSE Game_cls.vote_messages,
         votes                 |-> IF o.bound THEN o.votes
                                   ELSE Game_cls.votes,
         bound                 |-> o.bound,
         exc                   |-> None,
         out                   |-> <<>> ]

\* The instance attributes a handler leaves.
Stored(s) ==
    [ players               |-> s.players,
      scores                |-> s.scores,
      setter_index          |-> s.setter_index,
      question_setter       |-> s.question_setter,
      question              |-> s.question,
      answers               |-> IF s.bound THEN s.answers ELSE ClassAttr,
      answer_selection_list |-> s.answer_selection_list,
      correct_answer        |-> s.correct_answer,
      vote_messages         |-> IF s.bound THEN s.vote_messages ELSE ClassAttr,
      votes                 |-> IF s.bound THEN s.votes ELSE ClassAttr,
      bound                 |-> s.bound ]

\* The class's dicts a handler leaves: what it stored into a dict it had
\* not bound went into the class's.
StoredClass(s) ==
    IF s.bound THEN Game_cls
    ELSE [ answers |-> s.answers, vote_messages |-> s.vote_messages,
           votes |-> s.votes ]

\* The author of a message whose handler does not read the author.
Anyone == CHOOSE u \in Users : TRUE

\* Message ids.  Discord never reuses an id.  The model names the vote
\* prompts a Game holds in vote_messages <<1, k>>, a vote prompt of an
\* earlier round, which no Game holds any more, OldPrompt, and a message of
\* the channel that never was a vote prompt NotAPrompt.
OldPrompt == <<0, 1>>
NotAPrompt == <<0, 0>>

\* The ids of the messages channel.send returns next to Game s: ids that
\* no message has yet.
NextSent(s) ==
    LET used == {m[2] : m \in DOMAIN s.vote_messages}
        base == IF used = {} THEN 0
                ELSE CHOOSE k \in used : \A j \in used : j <= k
    IN [i \in 1..Cardinality(Users) |-> <<1, base + i>>]

\* The messages of g's channel the model puts reactions on.
MessageIds(g) == DOMAIN Self(g).vote_messages \cup {OldPrompt, NotAPrompt}

\* The reactions the model delivers: every vote emoji by every user on every
\* such message, one reaction with another emoji and one without a member.
ReactionEvents(g) ==
    [member : Users, emoji : VoteEmoji, message_id : MessageIds(g)]
        \cup [member : {Anyone}, emoji : {"x"}, message_id : {NotAPrompt}]
        \cup [member : {None}, emoji : {"1"}, message_id : {NotAPrompt}]

\* The user lists an !addplayers message can mention.
Mentions == UNION {[1..n -> Users] : n \in 0..MaxMentions}

\* The mentions seen so far, each user once, in first-seen order.
RECURSIVE FirstSeen(_, _)
FirstSeen(seen, ps) ==
    IF ps = <<>> THEN seen
    ELSE FirstSeen(IF \E i \in 1..Len(seen) : seen[i] = Head(ps) THEN seen
                   ELSE seen \o <<Head(ps)>>, Tail(ps))

\* What is noted of a handler run from s to s2 on event ev.
Notes(s, ev, s2) ==
    {n \in {"started"} : s.question_setter = None /\ s2.question_setter # None}
    \cup {n \in {"completed"} :
             s.question_setter # None /\ s2.question_setter = None}
    \cup {n \in {"unchanged"} : Stored(s2) = Stored(s)}
    \cup {n \in {"setter_active"} : s.question_setter # None}
    \cup {n \in {"opened"} : ~Truthy(s.answer_selection_list)
                                /\ Truthy(s2.answer_selection_list)}
    \cup {n \in {"rewritten"} :
             \E u \in DOMAIN s.answers \cap DOMAIN s2.answers :
                s.answers[u] # s2.answers[u]}
    \cup ev.notes

\* seen: the users mentioned in !addplayers so far, in first-seen order.
\* fixed: a first round has started and the roster is what it was then.
\* turn: while fixed, how many rounds have started after the first, modulo
\* the size of the roster (0 otherwise).
\* grown: the roster has grown in this round while its question was set.
\* posted: vote prompts of an earlier round are in the channel (prompts
\* that a Game held in vote_messages and holds no more).
\* setter: the setter of the round started last (None before the first).
\* pool: the players of the selection list the setter of this round was
\* sent, in its order (empty while none was sent).
NewHist ==
    [ seen |-> <<>>, fixed |-> FALSE, turn |-> 0, grown |-> FALSE,
      posted |-> FALSE, setter |-> None, pool |-> <<>> ]

\* A specification records the history its properties speak of, named in
\* watch: the kinds of event kept in last ("args": with their argument),
\* "rotation" for fixed and turn, "growth" for grown, "prompts" for posted,
\* "voters" for whether a reaction came from a tracked voter and on a vote
\* prompt of the round, "setter" for the setter of the round started last,
\* "pool" for the order of the selection list.
\* What is not watched keeps its initial value.

\* The event handled last, when it is of a kind in watch: its kind, its
\* argument, what is noted of it, the exception raised and the messages
\* sent.
NoEvent ==
    [ name |-> "other", game |-> 0, arg |-> Nil, notes |-> {}, exc |-> None,
      out |-> <<>> ]

\* Handler result s2 of event ev becomes the state of Game g.
Deliver(g, ev, s2, watch) ==
    LET s == Self(g)
        starts == s.question_setter = None /\ s2.question_setter # None
        first == starts /\ ~s.bound
        h == hist[g]
        fixed == IF first THEN TRUE ELSE h.fixed /\ s2.players = s.players
    IN /\ \A v \in DOMAIN s2.votes : s2.votes[v] <= MaxWeight
       /\ games' = [games EXCEPT ![g] = Stored(s2)]
       /\ Game_cls' = StoredClass(s2)
       /\ hist' = [hist EXCEPT ![g] =
                     [ seen    |-> IF ev.name = "addplayers"
                                   THEN FirstSeen(h.seen, ev.mentions)
                                   ELSE h.seen,
                       fixed   |-> "rotation" \in watch /\ fixed,
                       turn    |-> IF "rotation" \notin watch THEN 0
                                   ELSE IF first \/ ~fixed THEN 0
                                   ELSE IF starts
                                        THEN (h.turn + 1) % Len(s2.players)
                                   ELSE h.turn,
                       grown   |-> IF "growth" \notin watch \/ starts
                                   THEN FALSE
                                   ELSE \/ h.grown
                                        \/ /\ Truthy(s.question)
                                           /\ s2.players # s.players,
                       posted  |-> /\ "prompts" \in watch
                                   /\ \/ h.posted
                                      \/ \E m \in DOMAIN s.vote_messages :
                                            m \notin DOMAIN s2.vote_messages,
                       setter  |-> IF "setter" \notin watch THEN None
                                   ELSE IF s2.question_setter # None
                                        THEN s2.question_setter
                                   ELSE h.setter,
                       pool    |-> IF "pool" \notin watch \/ starts THEN <<>>
                                   ELSE IF Truthy(s2.answer_selection_list)
                                        THEN [i \in 1..Len(selection_list(s2))
                                                |-> selection_list(s2)[i][1]]
                                   ELSE h.pool ]]
       /\ last' = IF ev.name \in watch
                  THEN [ name |-> ev.name, game |-> g,
                         arg |-> IF "args" \in watch THEN ev.arg ELSE Nil,
                         notes |-> Notes(s, ev, s2),
                         exc |-> s2.exc, out |-> s2.out ]
                  ELSE NoEvent

Init ==
    /\ games = [g \in Sessions |-> NewGame]
    /\ Game_cls = ClassDicts
    /\ hist = [g \in Sessions |-> NewHist]
    /\ last = NoEvent

\* on_message -> handle_channel_message, "!nextround"
NextRound(g, watch) ==
    LET s == Self(g)
    IN Deliver(g, [name |-> "nextround", arg |-> Nil, notes |-> {}],
               handle_channel_message(s,
                   [author |-> Anyone, command |-> "!nextround",
                    rest |-> <<>>, mentions |-> <<>>]),
               watch)

\* on_message -> handle_channel_message, "!addplayers @..."
AddPlayers(g, watch) ==
    \E ps \in Mentions :
        LET s == Self(g)
        IN Deliver(g, [name |-> "addplayers", arg |-> Nil, mentions |-> ps,
                       notes |-> {n \in {"repeat"} :
                                    \E i \in 1..Len(ps) :
                                       \/ InList(ps[i], s.players)
                                       \/ \E j \in 1..(i - 1) : ps[j] = ps[i]}],
                   handle_channel_message(s,
                       [author |-> Anyone, command |-> "!addplayers ",
                        rest |-> <<>>, mentions |-> ps]),
                   watch)

\* on_message -> handle_channel_message, "!question ..."
Question(g, watch) ==
    \E author \in Users, text \in QuestionTexts :
        LET s == Self(g)
        IN Deliver(g, [name |-> "question",
                       arg |-> [author |-> author, content |-> text],
                       notes |-> {}],
                   handle_channel_message(s,
                       [author |-> author, command |-> "!question ",
                        rest |-> text, mentions |-> <<>>]),
                   watch)

\* on_message -> handle_channel_message, a message that is no command
Chat(g, watch) ==
    LET s == Self(g)
    IN Deliver(g, [name |-> "chat", arg |-> Nil, notes |-> {}],
               handle_channel_message(s,
                   [author |-> Anyone, command |-> "",
                    rest |-> <<"x">>, mentions |-> <<>>]),
               watch)

\* on_message -> handle_player_message: a direct message of one of g's
\* players.
PlayerMessage(g, watch) ==
    \E i \in 1..Len(games[g].players) :
      \E text \in DirectTexts(games[g].players[i] = games[g].question_setter),
         rnd \in Orderings(DOMAIN Self(g).answers \cup {games[g].players[i]}) :
        LET author == games[g].players[i]
            s == Self(g)
        IN Deliver(g, [name |-> "dm",
                       arg |-> [author |-> author, content |-> text],
                       notes |-> {n \in {"resubmit"} :
                                     author \in DOMAIN s.answers}
                                 \cup {n \in {"from_setter"} :
                                     /\ "setter" \in watch
                                     /\ author = hist[g].setter}],
                   handle_player_message(s,
                       [author |-> author, content |-> text],
                       [rnd |-> rnd, sent |-> NextSent(s)]),
                   watch)

\* on_raw_reaction_add -> handle_reaction
Reaction(g, watch) ==
    \E event \in ReactionEvents(g) :
        LET s == Self(g)
        IN Deliver(g, [name |-> "reaction", arg |-> Nil,
                       notes |-> {n \in {"old_prompt"} :
                                     /\ event.message_id = OldPrompt
                                     /\ hist[g].posted}
                                 \cup {n \in {"untracked"} :
                                     /\ "voters" \in watch
                                     /\ event.member \notin DOMAIN s.votes}
                                 \cup {n \in {"no_prompt"} :
                                     /\ "voters" \in watch
                                     /\ event.message_id
                                          \notin DOMAIN s.vote_messages}],
                   handle_reaction(s, event),
                   watch)

\* One event is delivered to one of the driven Games.
Step(watch) ==
    \E g \in Driven :
        \/ NextRound(g, watch)
        \/ AddPlayers(g, watch)
        \/ Question(g, watch)
        \/ Chat(g, watch)
        \/ PlayerMessage(g, watch)
        \/ Reaction(g, watch)

\* The specifications: the same events on the same Games, each with the
\* history its properties speak of.
Next == Step({"nextround"})
NextJoin == Step({"addplayers"})
NextDM == Step({"dm", "args"})
NextPool == Step({"dm", "growth"})
NextVote == Step({"reaction", "prompts"})
NextRotation == Step({"rotation"})
NextIgnore == Step({"reaction", "voters"})
NextAsk == Step({"question", "args"})
NextSetter == Step({"dm", "setter"})
NextIso == Step({"dm"})
NextShuffle == Step({"pool"})

Spec == Init /\ [][Next]_vars
SpecJoin == Init /\ [][NextJoin]_vars
SpecDM == Init /\ [][NextDM]_vars
SpecPool == Init /\ [][NextPool]_vars
SpecVote == Init /\ [][NextVote]_vars
SpecRotation == Init /\ [][NextRotation]_vars
SpecIgnore == Init /\ [][NextIgnore]_vars
SpecAsk == Init /\ [][NextAsk]_vars
SpecSetter == Init /\ [][NextSetter]_vars
SpecIso == Init /\ [][NextIso]_vars
SpecShuffle == Init /\ [][NextShuffle]_vars

----------------------------------------------------------------------------
\* The properties.

Range(l) == {l[i] : i \in 1..Len(l)}

\* A text without its blanks: what strip leaves of the texts delivered,
\* none of which has a blank inside.
Trimmed(t) == SelectSeq(t, LAMBDA c : c # " ")

\* The step selects an answer in Game g.
Selects(g) ==
    Self(g).correct_answer = None /\ Self(g)'.correct_answer # None

\* The step starts a round in Game g.
Starts(g) ==
    Self(g).question_setter = None /\ Self(g)'.question_setter # None

\* The step ends the round of Game g.
Completes(g) ==
    Self(g).question_setter # None /\ Self(g)'.question_setter = None

\* The step leaves everything an event to Game g can change as it was.
Untouched(g) == games'[g] = games[g] /\ Game_cls' = Game_cls

\* C1 as amended: after a successful select_answer the tracked voters (the
\* keys of votes) are exactly the participants who answered, each with
\* weight 0, and the setter is not one of them; so while a round's vote is
\* open some answerer is below 2, and the round ends without the setter
\* voting.
C1_VotersAreAnswerers ==
    /\ [][\A g \in Driven : Selects(g) =>
            LET t == Self(g)'
            IN /\ DOMAIN t.votes = DOMAIN t.answers
               /\ \A u \in DOMAIN t.votes : t.votes[u] = 0
               /\ t.question_setter \notin DOMAIN t.votes
               /\ DOMAIN t.votes \subseteq Range(t.players)]_vars
    /\ [](\A g \in Driven :
            LET s == Self(g)
            IN s.question_setter # None /\ s.correct_answer # None
                 => \E v \in DOMAIN s.answers : s.votes[v] < 2)

\* C1's case: roster [A, B, C], A was the setter, B and C have spent 2
\* each, A is no tracked voter, and the round has ended.
C1_Witness ==
    LET s == Self(1)
    IN /\ s.players = <<"A", "B", "C">>
       /\ s.setter_index = 0
       /\ s.correct_answer = "B"
       /\ s.votes = [u \in {"B", "C"} |-> 2]
       /\ s.question_setter = None

\* C1 as claimed: after a successful select_answer the tracked voters are
\* exactly the roster members, the setter included, each with weight 0; with
\* roster [A, B, C] and setter A the round has not ended while A is below 2.
C1_VotersAreRoster ==
    /\ [][\A g \in Driven : Selects(g) =>
            LET t == Self(g)'
            IN /\ DOMAIN t.votes = Range(t.players)
               /\ \A u \in DOMAIN t.votes : t.votes[u] = 0]_vars
    /\ [](LET s == Self(1)
          IN /\ s.players = <<"A", "B", "C">>
             /\ s.setter_index = 0
             /\ s.correct_answer # None
             /\ s.question_setter = None
             => "A" \in DOMAIN s.votes /\ s.votes["A"] >= 2)

\* C2: a round ends exactly in a step that accepts a vote and leaves every
\* tracked voter at 2 or more; that step unsets the setter, reveals the
\* answer and leaves the scores as they were.
C2_Completion ==
    [][\A g \in Driven :
         LET s == Self(g)
             t == Self(g)'
             accepted == /\ last'.name = "reaction"
                         /\ DOMAIN t.votes = DOMAIN s.votes
                         /\ \E v \in DOMAIN s.votes : t.votes[v] > s.votes[v]
             all2 == \A v \in DOMAIN t.votes : t.votes[v] >= 2
             ending == /\ t.question_setter = None
                       /\ InList("correct_answer_was", last'.out)
                       /\ t.scores = s.scores
         IN /\ Completes(g) => accepted /\ all2 /\ ending
            /\ accepted /\ all2 => ending
            /\ last'.name = "reaction" /\ ~(accepted /\ all2)
                 => /\ t.question_setter = s.question_setter
                    /\ ~InList("correct_answer_was", last'.out)]_vars

\* C2's case: the reaction handled last ended a round of two voters.
C2_Witness ==
    /\ last.name = "reaction"
    /\ "completed" \in last.notes
    /\ Cardinality(DOMAIN Self(1).votes) = 2

\* C3: the roster holds every user ever mentioned in an !addplayers once,
\* in first-seen order, and no step moves a player or changes a score.
C3_Roster ==
    /\ [](\A g \in Driven :
            LET s == Self(g)
            IN /\ s.players = hist[g].seen
               /\ \A i, j \in 1..Len(s.players) :
                     s.players[i] = s.players[j] => i = j
               /\ DOMAIN s.scores = Range(s.players))
    /\ [][\A g \in Driven :
            LET s == Self(g)
                t == Self(g)'
            IN \A i \in 1..Len(s.players) :
                  /\ Len(t.players) >= i
                  /\ t.players[i] = s.players[i]
                  /\ t.scores[s.players[i]] = s.scores[s.players[i]]]_vars

\* C3's case: an !addplayers that repeats a user, handled in the middle of
\* a round, with three players on the roster.
C3_Witness ==
    /\ last.name = "addplayers"
    /\ "repeat" \in last.notes
    /\ "setter_active" \in last.notes
    /\ Len(Self(1).players) = 3

\* C4: while the roster is the one the first round started with, the setter
\* of round i (from 0) is roster[i mod K]; the first setter is roster[0].
C4_RoundRobin ==
    \A g \in Driven :
       LET s == Self(g)
       IN hist[g].fixed /\ s.question_setter # None
            => /\ s.setter_index = hist[g].turn
               /\ s.question_setter = s.players[hist[g].turn + 1]

\* C5: "!nextround" while a setter is active changes nothing, sends nothing
\* and raises nothing.
C5_NextRoundNoOp ==
    [][\A g \in Driven :
         last'.name = "nextround" /\ Self(g).question_setter # None
           => Untouched(g) /\ last'.exc = None /\ last'.out = <<>>]_vars

\* C5's case: "!nextround" was handled while the vote of a round was open.
C5_Witness ==
    /\ last.name = "nextround"
    /\ "setter_active" \in last.notes
    /\ Self(1).correct_answer # None
    /\ Self(1).question_setter # None

\* C6: a step that starts a round leaves no question, no answers, no
\* selection list, no chosen answer, no vote messages and no votes; starting
\* a round does not change the roster or the scores; and a reaction on a
\* vote prompt of an earlier round changes nothing (and raises nothing
\* while no answer of the new round is chosen).
C6_RoundReset ==
    /\ [][\A g \in Driven : Starts(g) =>
            LET s == Self(g)
                t == Self(g)'
            IN /\ t.question = Nil
               /\ t.answers = EmptyDict
               /\ t.answer_selection_list = Nil
               /\ t.correct_answer = None
               /\ t.vote_messages = EmptyDict
               /\ t.votes = EmptyDict
               /\ SubSeq(t.players, 1, Len(s.players)) = s.players
               /\ \A u \in DOMAIN s.scores : t.scores[u] = s.scores[u]]_vars
    /\ [](\A g \in Driven :
            LET s == Self(g)
            IN /\ start_round(s).players = s.players
               /\ start_round(s).scores = s.scores)
    /\ [][\A g \in Driven :
            last'.name = "reaction" /\ "old_prompt" \in last'.notes
              => /\ Untouched(g)
                 /\ Self(g).correct_answer = None => last'.exc = None]_vars

\* C6's case: a reaction on a vote prompt of an earlier round was handled
\* in a round that had just started.
C6_Witness ==
    /\ last.name = "reaction"
    /\ "old_prompt" \in last.notes
    /\ hist[1].posted
    /\ Self(1).question_setter # None
    /\ Self(1).question = Nil

\* C7: "!nextround" on a Game whose roster is empty raises nothing and
\* leaves the Game as it was constructed.
C7_EmptyRosterNoOp ==
    \A g \in Driven :
       last.name = "nextround" /\ Self(g).players = <<>>
         => last.exc = None /\ games[g] = NewGame

\* C8: an !addplayers starts a round only when the roster had fewer than 2
\* members, has at least 2 now and no round was active; in every other case
\* it leaves the setter, the setter index and the round state as they were.
C8_AutoStartOnlyFirst ==
    [][\A g \in Driven :
         LET s == Self(g)
             t == Self(g)'
         IN last'.name = "addplayers"
            /\ ~(Len(s.players) < 2 /\ Len(t.players) >= 2
                 /\ s.question_setter = None)
            => /\ t.question_setter = s.question_setter
               /\ t.setter_index = s.setter_index
               /\ t.question = s.question
               /\ t.answers = s.answers
               /\ t.answer_selection_list = s.answer_selection_list
               /\ t.correct_answer = s.correct_answer
               /\ t.vote_messages = s.vote_messages
               /\ t.votes = s.votes]_vars

\* C9: a direct message of a player other than the setter, while answers
\* are collected, is accepted; an accepted one leaves answers with the
\* trimmed text for its author, whatever the author had answered before,
\* and with the other entries as they were.
C9_LastWriteWins ==
    [][\A g \in Driven :
         LET s == Self(g)
             t == Self(g)'
             m == last'.arg
             accepted == InList("thumbs_up", last'.out)
         IN last'.name = "dm" =>
              /\ m.author # s.question_setter /\ Truthy(s.question)
                 /\ ~Truthy(s.answer_selection_list)
                 /\ s.correct_answer = None => accepted
              /\ accepted =>
                   t.answers = [u \in DOMAIN s.answers \cup {m.author} |->
                                  IF u = m.author THEN Trimmed(m.content)
                                  ELSE s.answers[u]]]_vars

\* C9's case: a player who had answered sent another text, which was
\* trimmed and replaced the first.
C9_Witness ==
    /\ last.name = "dm"
    /\ "rewritten" \in last.notes
    /\ InList("thumbs_up", last.out)
    /\ Self(1).answers[last.arg.author] = Trimmed(last.arg.content)
    /\ Len(Trimmed(last.arg.content)) < Len(last.arg.content)

\* C10: the selection list is set exactly by the accepted answer that makes
\* the number of answers len(players) - 1; it then holds the (player, text)
\* pairs of answers, each once, and every player but the setter has one.
C10_SelectionTrigger ==
    [][\A g \in Driven :
         LET s == Self(g)
             t == Self(g)'
             accepted == last'.name = "dm" /\ InList("thumbs_up", last'.out)
             full == Cardinality(DOMAIN t.answers) = Len(t.players) - 1
             list == t.answer_selection_list[1]
         IN /\ accepted /\ full => Truthy(t.answer_selection_list)
            /\ ~Truthy(s.answer_selection_list)
               /\ Truthy(t.answer_selection_list)
               => /\ accepted /\ full
                  /\ Len(list) = Cardinality(DOMAIN t.answers)
                  /\ Range(list) = {<<u, t.answers[u]>> : u \in DOMAIN t.answers}
                  /\ DOMAIN t.answers
                       = Range(t.players) \ {t.question_setter}]_vars

\* C10's case: the answer handled last set the selection list, in a round
\* whose roster had grown while answers were collected.
C10_Witness ==
    /\ last.name = "dm"
    /\ "opened" \in last.notes
    /\ hist[1].grown
    /\ Len(Self(1).players) = 3

\* The number a direct message of one decimal digit names.
NumberOf(t) == CHOOSE k \in 0..9 : t = <<ToString(k)>>

\* C11: a number k the setter sends while a selection list of n > 0
\* entries is open changes nothing when k = 0 or k > n, and for 1 <= k <= n
\* makes the participant of the k-th entry the correct answer and clears
\* the list; a number the setter sends while no list is open changes
\* nothing.
C11_IndexValidation ==
    [][\A g \in Driven :
         LET s == Self(g)
             t == Self(g)'
             m == last'.arg
             k == NumberOf(m.content)
             pool == s.answer_selection_list[1]
         IN last'.name = "dm" /\ m.author = s.question_setter
            /\ m.content \in {<<"0">>, <<"1">>, <<"2">>, <<"3">>}
            => IF Truthy(s.answer_selection_list)
               THEN IF k = 0 \/ k > Len(pool)
                    THEN Untouched(g) /\ t.correct_answer = None
                         /\ last'.exc = None /\ last'.out = <<>>
                    ELSE /\ t.correct_answer = pool[k][1]
                         /\ t.answer_selection_list = Nil
                         /\ last'.exc = None
               ELSE Untouched(g) /\ last'.exc = None /\ last'.out = <<>>]_vars

\* C11's case: the setter sent 2 while a list of two answers was open, and
\* the author of the second entry became the correct answer.
C11_Witness ==
    /\ last.name = "dm"
    /\ last.arg.author = Self(1).question_setter
    /\ last.arg.content = <<"2">>
    /\ Self(1).correct_answer # None
    /\ Cardinality(DOMAIN Self(1).vote_messages) = 2
    /\ Self(1).answer_selection_list = Nil

\* C12: a reaction handled while no correct answer is chosen, or from
\* someone who is no key of votes, or on a message that is no key of
\* vote_messages, changes nothing and raises nothing.
C12_VoteIgnored ==
    [][\A g \in Driven :
         last'.name = "reaction"
         /\ \/ Self(g).correct_answer = None
            \/ "untracked" \in last'.notes
            \/ "no_prompt" \in last'.notes
         => Untouched(g) /\ last'.exc = None]_vars

\* C19: a reaction handled after the round has ended (the setter cleared,
\* no round started since) changes no vote credit and reveals nothing.
C19_RevealedOnce ==
    [][\A g \in Driven :
         last'.name = "reaction" /\ Self(g).correct_answer # None
         /\ Self(g).question_setter = None
         => /\ Self(g)'.votes = Self(g).votes
            /\ ~InList("correct_answer_was", last'.out)]_vars

\* C13: a direct message of anyone but the setter, handled while the
\* selection list is open or a correct answer is chosen, leaves answers,
\* the selection list, the correct answer, the vote messages and the votes
\* as they were, is not acknowledged and requests no selection.
C13_LateAnswersDropped ==
    [][\A g \in Driven :
         LET s == Self(g)
             t == Self(g)'
         IN last'.name = "dm" /\ last'.arg.author # s.question_setter
            /\ (Truthy(s.answer_selection_list) \/ s.correct_answer # None)
            => /\ t.answers = s.answers
               /\ t.answer_selection_list = s.answer_selection_list
               /\ t.correct_answer = s.correct_answer
               /\ t.vote_messages = s.vote_messages
               /\ t.votes = s.votes
               /\ last'.out = <<>>]_vars

\* C13's case: a player wrote after the round had ended and before the next
\* one started, and the answers of the round are as they were collected.
C13_Witness ==
    /\ last.name = "dm"
    /\ Self(1).question_setter = None
    /\ Self(1).correct_answer # None
    /\ last.arg.author \notin DOMAIN Self(1).answers
    /\ last.out = <<>>

\* C14: a !question of anyone but the setter, or with no setter active, or
\* with a question already set (not None), leaves the question as it was;
\* and between two round starts the question changes at most once: a step
\* that changes it and starts no round finds it None.
C14_QuestionOnce ==
    [][\A g \in Driven :
         LET s == Self(g)
             t == Self(g)'
         IN /\ last'.name = "question"
               /\ \/ last'.arg.author # s.question_setter
                  \/ s.question_setter = None
                  \/ s.question # Nil
               => t.question = s.question
            /\ t.question # s.question => Starts(g) \/ s.question = Nil]_vars

\* C15 as stated: a question that is not empty has a setter.
C15_QuestionHasSetter ==
    \A g \in Driven :
       Truthy(Self(g).question) => Self(g).question_setter # None

\* C15 as amended: a question that is not empty has a setter, or belongs to
\* a round that has ended and that no new round has replaced: then the
\* correct answer of that round is still set.
C15_QuestionHasSetterOrEnded ==
    \A g \in Driven :
       Truthy(Self(g).question)
         => Self(g).question_setter # None \/ Self(g).correct_answer # None

\* C15's case: a round has ended and its question is still there.
C15_Witness ==
    /\ Truthy(Self(1).question)
    /\ Self(1).question_setter = None
    /\ Self(1).correct_answer # None

\* C20: whenever a setter is set the roster has at least 2 members and the
\* setter is players[setter_index], with 0 <= setter_index < len(players).
C20_PlayableRoster ==
    \A g \in Driven :
       LET s == Self(g)
       IN s.question_setter # None
            => /\ Len(s.players) >= 2
               /\ 0 <= s.setter_index /\ s.setter_index < Len(s.players)
               /\ s.players[s.setter_index + 1] = s.question_setter

\* C16: answers has no entry for the setter of the round started last,
\* while that round runs and after it has ended; and no direct message of
\* that setter is acknowledged as an answer.
C16_SetterNeverAnswers ==
    /\ [](\A g \in Driven : hist[g].setter \notin DOMAIN Self(g).answers)
    /\ [](\A g \in Driven :
            last.name = "dm" /\ "from_setter" \in last.notes
              => ~InList("thumbs_up", last.out))

\* C16's case: the setter of a round that has ended wrote a direct message,
\* and the answers are those of the other players.
C16_Witness ==
    /\ last.name = "dm"
    /\ "from_setter" \in last.notes
    /\ Self(1).question_setter = None
    /\ hist[1].setter # None
    /\ DOMAIN Self(1).answers # {}
    /\ hist[1].setter \notin DOMAIN Self(1).answers

\* C17: an event delivered to one Game leaves every attribute of every
\* other Game as it was, the three dicts included, also for a Game that has
\* started no round and so still reads the dicts of the class body: no
\* handler writes into those.
C17_Isolation ==
    /\ [][\A o \in Sessions \ Driven : Self(o)' = Self(o)]_vars
    /\ [](Game_cls = ClassDicts)
    /\ [](\A g \in Driven, o \in Sessions \ Driven :
            Self(g).answers # EmptyDict => Self(o).answers = EmptyDict)

\* C17's case: an answer has been accepted in one Game, which holds answers,
\* vote messages and votes, while the other Game has started no round and
\* shows the declared defaults.
C17_Witness ==
    /\ last.name = "dm"
    /\ InList("thumbs_up", last.out)
    /\ Self(1).answers # EmptyDict
    /\ ~games[2].bound
    /\ Self(2).answers = EmptyDict
    /\ Self(2).votes = EmptyDict
    /\ Self(2).vote_messages = EmptyDict

\* The vote prompts of Game g in the order they were posted, each as the
\* player whose answer it shows.
DisplayOrder(g) ==
    LET vm == Self(g).vote_messages
    IN [i \in 1..Cardinality(DOMAIN vm) |->
          vm[CHOOSE m \in DOMAIN vm :
               Cardinality({x \in DOMAIN vm : x[2] <= m[2]}) = i]]

\* The players of the open selection list of Game g, in its order.
PoolOrder(g) ==
    [i \in 1..Len(selection_list(Self(g))) |-> selection_list(Self(g))[i][1]]

\* C18: whatever order the selection list has, the setter's selection can
\* display the answers in every order; and the answer that completes the
\* answers can open the selection list in every order.  So every pair of a
\* private and a public order has an execution, and the place of an answer
\* in one does not give its place in the other.
C18_IndependentShuffles ==
    \A g \in Driven :
       LET s == Self(g)
           missing == {u \in Range(s.players) \ {s.question_setter} :
                          u \notin DOMAIN s.answers}
       IN /\ Truthy(s.answer_selection_list)
             => \A d \in Orderings(DOMAIN s.answers) :
                   ENABLED (/\ PlayerMessage(g, {"pool"})
                            /\ Self(g)'.correct_answer # None
                            /\ DisplayOrder(g)' = d)
          /\ /\ Truthy(s.question) /\ s.question_setter # None
             /\ ~Truthy(s.answer_selection_list) /\ s.correct_answer = None
             /\ Cardinality(missing) = 1
             => \A p \in Orderings(DOMAIN s.answers \cup missing) :
                   ENABLED (/\ PlayerMessage(g, {"pool"})
                            /\ Truthy(Self(g)'.answer_selection_list)
                            /\ PoolOrder(g)' = p)

\* C18's case: two answers are displayed for the vote in an order that is
\* not the order of the selection list the setter chose from.
C18_Witness ==
    /\ Self(1).correct_answer # None
    /\ Len(hist[1].pool) = 2
    /\ Len(DisplayOrder(1)) = 2
    /\ DisplayOrder(1) # hist[1].pool

====
